---- MODULE Spec2Model ----
(***************************************************************************)
(* Safe Onboarding Demo: the multi-step App component (deploy Safe, set    *)
(* permissions, transfer tokens, transfer tokens to owner), the wallet     *)
(* negotiation routine ensureWalletOnBase, and the single-step App variant *)
(* (handleOnboard).                                                        *)
(*                                                                         *)
(* Every handler is an async function.  Its synchronous prefix (up to the  *)
(* first await) is one action; every await is a suspension point, and the  *)
(* resumption up to the next await is one action.  Suspended invocations   *)
(* live in the bag `inflight`; each keeps the values its closure captured  *)
(* when the handler was invoked (walletClient, safeResult, form inputs).   *)
(***************************************************************************)
EXTENDS Integers, Sequences, FiniteSets, Bags, TLC

VARIABLES
    \* wagmi hooks (the wallet-provider abstraction)
    isConnected,            \* useAccount().isConnected
    chainId,                \* useChainId()
    publicClient,           \* usePublicClient() is defined
    walletClient,           \* useWalletClient().data : None or Some(handle)
    providerChain,          \* the chain the wallet itself is on (what getChainId() answers)
    \* useState of the multi-step App
    deployPhase, permissionsPhase, transferPhase, transferBackPhase,
    deployError, permissionsError, transferError, transferBackError,
    safeResult, permissionsResult, transferResult, transferBackResult,
    transferBackSafeAddress, transferAddress, transferAmount,
    transferBackAddress, transferBackAmount,
    activeStep,
    \* useState of the single-step App
    onboardingPhase, onboardingError, deploymentResult,
    \* suspended handler invocations, and how many handler invocations there were
    inflight, clicks,
    \* what the most recent step did (history, read by the properties only)
    last

walletVars == <<isConnected, chainId, publicClient, walletClient, providerChain>>
phaseVars == <<deployPhase, permissionsPhase, transferPhase, transferBackPhase>>
errorVars == <<deployError, permissionsError, transferError, transferBackError>>
resultVars == <<safeResult, permissionsResult, transferResult, transferBackResult>>
formVars == <<transferBackSafeAddress, transferAddress, transferAmount,
              transferBackAddress, transferBackAmount>>
stepVars == <<phaseVars, errorVars, resultVars, activeStep>>
onboardVars == <<onboardingPhase, onboardingError, deploymentResult>>
vars == <<walletVars, stepVars, formVars, onboardVars, inflight, clicks, last>>

(***************************************************************************)
(* Values                                                                  *)
(***************************************************************************)
None == <<>>
Some(x) == <<x>>
IsSome(o) == o # <<>>
Get(o) == o[1]

StepPhase == {"idle", "running", "success", "error"}
Steps == {"deploy", "permissions", "transfer", "transferBack"}
NoStep == "null"

BaseId == "base"
OtherId == "other"
Undefined == "undefined"

\* A wallet client handle as the code reads it: chain?.id, typeof getChainId,
\* typeof switchChain, account.
AllWalletClients ==
    [chain : {Undefined, BaseId, OtherId}, getChainId : BOOLEAN,
     switchChain : BOOLEAN, account : BOOLEAN]
\* Handles on Base with an account: one that carries its chain, and one
\* whose chain id is asked of the wallet (getChainId()).
ReadyWalletClients ==
    {[chain |-> c, getChainId |-> TRUE, switchChain |-> TRUE, account |-> TRUE] :
        c \in {BaseId, Undefined}}

\* A value thrown by the wallet provider or the SDK: an Error with a message,
\* or something that is not an Error.
ProviderError == [isError |-> TRUE, message |-> "User rejected the request."]
NonError == [isError |-> FALSE, message |-> ""]
Thrown == {ProviderError, NonError}
Err(m) == [isError |-> TRUE, message |-> m]

DeployResult(a) ==
    [safeAddress |-> a, transactionHash |-> "0xdeploytx", multiSendCallOnly |-> "0xmsco"]
\* What setPermissions / the transfers answer; `safeAddress` and the other
\* arguments are kept in the record so that a stored result tells which call
\* produced it.
CallResult(op) ==
    [transactionHash |-> "0xtx", step |-> op.step, safeAddress |-> op.safeAddress,
     assetAddress |-> op.assetAddress, amount |-> op.amount]

(***************************************************************************)
(* Strings (form inputs) are sequences of characters.                      *)
(***************************************************************************)
AddressLength == 42
Rep(c, n) == [i \in 1..n |-> c]
Prefix0x == <<"0", "x">>
IsWhitespace(c) == c \in {" ", "\t", "\n"}

RECURSIVE TrimStart(_)
TrimStart(s) == IF s # <<>> /\ IsWhitespace(Head(s)) THEN TrimStart(Tail(s)) ELSE s
RECURSIVE TrimEnd(_)
TrimEnd(s) ==
    IF s # <<>> /\ IsWhitespace(s[Len(s)]) THEN TrimEnd(SubSeq(s, 1, Len(s) - 1)) ELSE s
Trim(s) == TrimEnd(TrimStart(s))
StartsWith(s, p) == Len(s) >= Len(p) /\ SubSeq(s, 1, Len(p)) = p

\* TransferAddressInvalid without the length check.
TransferAddressInvalidPrefixOnly(tokenAddress) ==
    tokenAddress = <<>> \/ ~StartsWith(tokenAddress, Prefix0x)

\* !tokenAddress || !tokenAddress.startsWith('0x') || tokenAddress.length !== 42
TransferAddressInvalid(tokenAddress) ==
    tokenAddress = <<>> \/ ~StartsWith(tokenAddress, Prefix0x)
        \/ Len(tokenAddress) # AddressLength
TransferBackSafeAddressInvalid(safeAddressInput) ==
    safeAddressInput = <<>> \/ ~StartsWith(safeAddressInput, Prefix0x)
        \/ Len(safeAddressInput) # AddressLength
TransferBackAddressInvalid(tokenAddress) ==
    tokenAddress = <<>> \/ ~StartsWith(tokenAddress, Prefix0x)
        \/ Len(tokenAddress) # AddressLength
\* AmountMissing that also rejects what is not a decimal number.
AmountNotDecimal(amount) ==
    \/ amount = <<>>
    \/ \E k \in 1..Len(amount) :
          amount[k] \notin {"0", "1", "2", "3", "4", "5", "6", "7", "8", "9", "."}

\* !amount
AmountMissing(amount) == amount = <<>>

\* Addresses of deployed Safes (what deploySafe answers).
SafeA == Prefix0x \o Rep("1", AddressLength - Len(Prefix0x))
SafeB == Prefix0x \o Rep("2", AddressLength - Len(Prefix0x))

\* Form inputs a user may type.
GoodAddress == Prefix0x \o Rep("a", AddressLength - Len(Prefix0x))
PaddedAddress == <<" ">> \o GoodAddress \o <<"\t">>
ShortAddress == Prefix0x \o Rep("A", AddressLength - Len(Prefix0x) - 1)
NoPrefixAddress == <<"1", "x">> \o Rep("a", AddressLength - Len(Prefix0x))
Blank == <<" ", " ">>

(***************************************************************************)
(* Error messages of the source                                            *)
(***************************************************************************)
MsgPublicClient == "Public client not available."
MsgDeployFirst == "Deploy a Safe first."
MsgTokenAddress == "Enter a valid token address."
MsgSafeAddress == "Enter a valid Safe address."
MsgAmount == "Enter an amount (integer or hex string)."
MsgWalletClient == "Wallet client not available. Connect a wallet first."
MsgNetwork == "Please switch your wallet to the Base network and try again."
MsgAccount == "Wallet client must have an active account."
MsgOnboardClients == "Wallet or public client not available."

\* error instanceof Error ? error.message : <fallback>
Fallback(step) ==
    CASE step = "deploy" -> "Failed to deploy Safe."
      [] step = "permissions" -> "Failed to set permissions."
      [] step = "transfer" -> "Token transfer failed."
      [] step = "transferBack" -> "Token transfer failed."
      [] step = "onboard" -> "Onboarding failed. Please try again."
\* ErrorMessage without the instanceof check.
ErrorMessageUnchecked(error, step) == error.message

ErrorMessage(error, step) == IF error.isError THEN error.message ELSE Fallback(step)

(***************************************************************************)
(* Suspended handler invocations                                           *)
(***************************************************************************)
\* The closure of one handler invocation: what it captured when it was
\* invoked and the locals of ensureWalletOnBase.
NewOp(step, safeAddress, multiSend, assetAddress, amount) ==
    [step |-> step, pc |-> "resolve",
     walletClient |-> walletClient, activeWalletClient |-> walletClient,
     firstChainId |-> "unresolved", currentChainId |-> "unresolved",
     switched |-> FALSE, sessionSwitch |-> "skipped", providerSwitch |-> "skipped",
     refetch |-> "skipped", refreshed |-> None,
     safeAddress |-> safeAddress, multiSendCallOnlyAddress |-> multiSend,
     assetAddress |-> assetAddress, amount |-> amount,
     sdkWalletClient |-> None]

Ops == BagToSet(inflight)
Put(op) == inflight (+) SetToBag({op})
Take(op) == inflight (-) SetToBag({op})
Replace(op, new) == (inflight (-) SetToBag({op})) (+) SetToBag({new})

Event(kind, step, message, op) ==
    [kind |-> kind, step |-> step, message |-> message, op |-> op, read |-> None]

SetPhase(step, phase) ==
    /\ deployPhase' = IF step = "deploy" THEN phase ELSE deployPhase
    /\ permissionsPhase' = IF step = "permissions" THEN phase ELSE permissionsPhase
    /\ transferPhase' = IF step = "transfer" THEN phase ELSE transferPhase
    /\ transferBackPhase' = IF step = "transferBack" THEN phase ELSE transferBackPhase
    /\ onboardingPhase' = IF step = "onboard" THEN phase ELSE onboardingPhase
SetError(step, error) ==
    /\ deployError' = IF step = "deploy" THEN error ELSE deployError
    /\ permissionsError' = IF step = "permissions" THEN error ELSE permissionsError
    /\ transferError' = IF step = "transfer" THEN error ELSE transferError
    /\ transferBackError' = IF step = "transferBack" THEN error ELSE transferBackError
    /\ onboardingError' = IF step = "onboard" THEN error ELSE onboardingError
SetResult(step, result) ==
    /\ safeResult' = IF step = "deploy" THEN result ELSE safeResult
    /\ permissionsResult' = IF step = "permissions" THEN result ELSE permissionsResult
    /\ transferResult' = IF step = "transfer" THEN result ELSE transferResult
    /\ transferBackResult' = IF step = "transferBack" THEN result ELSE transferBackResult
    /\ deploymentResult' = IF step = "onboard" THEN result ELSE deploymentResult

\* finally { setActiveStep(null) }: the four handlers of the multi-step App;
\* handleOnboard has no active-step marker.
Finally(step) == activeStep' = IF step = "onboard" THEN activeStep ELSE NoStep

\* Catch that logs the error and shows nothing.
CatchSilently(op, now, error) ==
    /\ Finally(op.step)
    /\ UNCHANGED <<phaseVars, onboardingPhase, errorVars, onboardingError,
                   resultVars, deploymentResult, formVars>>
    /\ inflight' = Take(op)
    /\ last' = Event("failure", op.step, ErrorMessage(error, op.step), Some(now))

\* Catch that starts the flow over: it drops the deploy result.
CatchDroppingSafe(op, now, error) ==
    /\ SetError(op.step, Some(ErrorMessage(error, op.step)))
    /\ SetPhase(op.step, "error")
    /\ Finally(op.step)
    /\ safeResult' = None
    /\ UNCHANGED <<permissionsResult, transferResult, transferBackResult,
                   deploymentResult, formVars>>
    /\ inflight' = Take(op)
    /\ last' = Event("failure", op.step, ErrorMessage(error, op.step), Some(now))

\* Catch in a handler that clears the marker at the end of its try block.
CatchWithoutFinally(op, now, error) ==
    /\ SetError(op.step, Some(ErrorMessage(error, op.step)))
    /\ SetPhase(op.step, "error")
    /\ UNCHANGED <<resultVars, deploymentResult, formVars, activeStep>>
    /\ inflight' = Take(op)
    /\ last' = Event("failure", op.step, ErrorMessage(error, op.step), Some(now))

\* catch (error) { setXError(message); setXPhase('error') } finally { ... }
\* `op` is the invocation as it was suspended, `now` its locals at the throw.
Catch(op, now, error) ==
    /\ SetError(op.step, Some(ErrorMessage(error, op.step)))
    /\ SetPhase(op.step, "error")
    /\ Finally(op.step)
    /\ UNCHANGED <<resultVars, deploymentResult, formVars>>
    /\ inflight' = Take(op)
    /\ last' = Event("failure", op.step, ErrorMessage(error, op.step), Some(now))

\* Succeed that sets the phase and forgets the result.
SucceedUnstored(op, result) ==
    /\ SetPhase(op.step, "success")
    /\ Finally(op.step)
    /\ UNCHANGED <<resultVars, deploymentResult, errorVars, onboardingError, formVars>>
    /\ inflight' = Take(op)
    /\ last' = Event("success", op.step, "", Some(op))

\* setXResult(result); setXPhase('success') ... finally { ... }
Succeed(op, result) ==
    /\ SetResult(op.step, Some(result))
    /\ SetPhase(op.step, "success")
    /\ Finally(op.step)
    /\ UNCHANGED <<errorVars, onboardingError, formVars>>
    /\ inflight' = Take(op)
    /\ last' = Event("success", op.step, "", Some(op))

\* The invocation stays suspended, at the next await.
Suspend(op, new) ==
    /\ inflight' = Replace(op, new)
    /\ UNCHANGED <<stepVars, onboardVars, formVars>>
    /\ last' = Event(IF new.pc = "sdk" THEN "sdkCall" ELSE "await", op.step, "", Some(new))

\* One resumption of an invocation: it either throws or suspends again.
Throw(now, error) == [kind |-> "throw", error |-> error, op |-> Some(now)]
Await(new) == [kind |-> "await", error |-> NonError, op |-> Some(new)]
Apply(op, outcome) ==
    IF outcome.kind = "throw" THEN Catch(op, Get(outcome.op), outcome.error)
    ELSE Suspend(op, Get(outcome.op))

(***************************************************************************)
(* ensureWalletOnBase (and the same lines inlined in handleOnboard)        *)
(***************************************************************************)
\* activeWalletClient.chain?.id ?? (typeof getChainId === 'function'
\*     ? await getChainId() : undefined)
resolveChainId(client) ==
    IF client.chain # Undefined THEN client.chain
    ELSE IF client.getChainId THEN providerChain
    ELSE Undefined

\* const baseBoundWalletClient = {...activeWalletClient, chain: base,
\*     getChainId: async () => base.id, account}
baseBoundWalletClient(client) ==
    [client EXCEPT !.chain = BaseId, !.getChainId = TRUE]

\* The wallet client handed to new OnboardingClient({walletClient, ...}).
SdkWalletClient(op) ==
    IF op.step = "onboard"
    THEN Some(baseBoundWalletClient(Get(op.activeWalletClient)))
    ELSE op.activeWalletClient

\* AccountCheck that returns the handle unchecked.
AccountUnchecked(op) ==
    Await([op EXCEPT !.pc = "sdk", !.sdkWalletClient = SdkWalletClient(op)])

\* const account = activeWalletClient.account; if (!account) throw ...;
\* return activeWalletClient, then the handler constructs the
\* OnboardingClient and issues its SDK call.
AccountCheck(op) ==
    IF ~Get(op.activeWalletClient).account THEN Throw(op, Err(MsgAccount))
    ELSE Await([op EXCEPT !.pc = "sdk", !.sdkWalletClient = SdkWalletClient(op)])

\* AfterSwitch that refreshes the handle whether a switch succeeded or not.
AfterSwitchRefreshing(op, fns) ==
    {Await([op EXCEPT !.pc = IF f THEN "refetch" ELSE "reresolve",
                      !.refetch = IF f THEN "pending" ELSE "absent"]) : f \in fns}

\* if (switched && typeof refetchWalletClient === 'function') refetch,
\* then currentChainId = await resolveChainId()
AfterSwitch(op, fns) ==
    IF op.switched
    THEN {Await([op EXCEPT !.pc = IF f THEN "refetch" ELSE "reresolve",
                           !.refetch = IF f THEN "pending" ELSE "absent"]) : f \in fns}
    ELSE {Await([op EXCEPT !.pc = "reresolve"])}

\* if (!switched && typeof switchChainAsync === 'function') await switchChainAsync(...)
ProviderSwitch(op, fns) ==
    IF ~op.switched
    THEN UNION {IF f THEN {Await([op EXCEPT !.pc = "switchChainAsync",
                                            !.providerSwitch = "pending"])}
                ELSE AfterSwitch([op EXCEPT !.providerSwitch = "absent"], fns) : f \in fns}
    ELSE AfterSwitch(op, fns)

\* AfterResolve that asks for the switch whatever the chain id is.
AfterResolveSwitching(op, fns) ==
    IF Get(op.activeWalletClient).switchChain
    THEN {Await([op EXCEPT !.pc = "switchChain", !.sessionSwitch = "pending"])}
    ELSE ProviderSwitch([op EXCEPT !.sessionSwitch = "absent"], fns)

\* if (currentChainId !== base.id) { ... if (typeof switchChain === 'function') ... }
AfterResolve(op, fns) ==
    IF op.currentChainId # BaseId
    THEN IF Get(op.activeWalletClient).switchChain
         THEN {Await([op EXCEPT !.pc = "switchChain", !.sessionSwitch = "pending"])}
         ELSE ProviderSwitch([op EXCEPT !.sessionSwitch = "absent"], fns)
    ELSE {AccountCheck(op)}

\* AfterReresolve without the post-switch check of the chain id.
AfterReresolveUnchecked(op) == AccountCheck(op)

\* if (currentChainId !== base.id) throw new Error('Please switch ...')
AfterReresolve(op) ==
    IF op.currentChainId # BaseId THEN Throw(op, Err(MsgNetwork)) ELSE AccountCheck(op)

\* An await whose promise is already settled resumes in a microtask, before
\* any other event is handled: the rejected ensureWalletOnBase() of a missing
\* wallet client, and resolveChainId() when it reads chain.id and calls
\* nothing.  Every other await waits for the wallet provider or the SDK.
Microtask(op) ==
    /\ op.pc \in {"resolve", "reresolve"}
    /\ IF op.walletClient = None THEN TRUE
       ELSE Get(op.activeWalletClient).chain # Undefined
Idle == \A op \in Ops : ~Microtask(op)
Runnable(op) == Idle \/ Microtask(op)

\* if (!walletClient) throw ...; let currentChainId = await resolveChainId()
Resolve(op, fns) ==
    /\ op.pc = "resolve"
    /\ Runnable(op)
    /\ UNCHANGED clicks
    /\ IF op.walletClient = None
       THEN Apply(op, Throw(op, Err(MsgWalletClient)))
       ELSE LET c == resolveChainId(Get(op.activeWalletClient)) IN
            \E out \in AfterResolve([op EXCEPT !.firstChainId = c, !.currentChainId = c], fns) :
                Apply(op, out)
    /\ UNCHANGED walletVars

\* SwitchChain without its try block: a rejection ends the operation.
SwitchChainUncaught(op, fns) ==
    /\ op.pc = "switchChain"
    /\ Runnable(op)
    /\ UNCHANGED clicks
    /\ \/ /\ providerChain' = BaseId
          /\ chainId' = BaseId
          /\ \E out \in ProviderSwitch([op EXCEPT !.switched = TRUE, !.sessionSwitch = "ok"], fns) :
                Apply(op, out)
       \/ /\ UNCHANGED <<providerChain, chainId>>
          /\ \E error \in Thrown :
                Apply(op, Throw([op EXCEPT !.sessionSwitch = "failed"], error))
    /\ UNCHANGED <<isConnected, publicClient, walletClient>>

\* await activeWalletClient.switchChain({id: base.id}); switched = true
\* catch: console.warn(...) and fall through
SwitchChain(op, fns) ==
    /\ op.pc = "switchChain"
    /\ Runnable(op)
    /\ UNCHANGED clicks
    /\ \/ /\ providerChain' = BaseId
          /\ chainId' = BaseId
          /\ \E out \in ProviderSwitch([op EXCEPT !.switched = TRUE, !.sessionSwitch = "ok"], fns) :
                Apply(op, out)
       \/ /\ UNCHANGED <<providerChain, chainId>>
          /\ \E out \in ProviderSwitch([op EXCEPT !.sessionSwitch = "failed"], fns) :
                Apply(op, out)
    /\ UNCHANGED <<isConnected, publicClient, walletClient>>

\* SwitchChainAsync with its failure swallowed like the in-session one.
SwitchChainAsyncSwallowed(op, fns) ==
    /\ op.pc = "switchChainAsync"
    /\ Runnable(op)
    /\ UNCHANGED clicks
    /\ \/ /\ providerChain' = BaseId
          /\ chainId' = BaseId
          /\ \E out \in AfterSwitch([op EXCEPT !.switched = TRUE, !.providerSwitch = "ok"], fns) :
                Apply(op, out)
       \/ /\ UNCHANGED <<providerChain, chainId>>
          /\ \E out \in AfterSwitch([op EXCEPT !.providerSwitch = "failed"], fns) :
                Apply(op, out)
    /\ UNCHANGED <<isConnected, publicClient, walletClient>>

\* await switchChainAsync({chainId: base.id}); switched = true
SwitchChainAsync(op, fns) ==
    /\ op.pc = "switchChainAsync"
    /\ Runnable(op)
    /\ UNCHANGED clicks
    /\ \/ /\ providerChain' = BaseId
          /\ chainId' = BaseId
          /\ \E out \in AfterSwitch([op EXCEPT !.switched = TRUE, !.providerSwitch = "ok"], fns) :
                Apply(op, out)
       \/ /\ UNCHANGED <<providerChain, chainId>>
          /\ \E error \in Thrown :
                Apply(op, Throw([op EXCEPT !.providerSwitch = "failed"], error))
    /\ UNCHANGED <<isConnected, publicClient, walletClient>>

\* Adopt that reads the refreshed handle and keeps the original one.
AdoptNothing(op, data) ==
    [op EXCEPT !.refreshed = data, !.pc = "reresolve",
               !.refetch = IF IsSome(data) THEN "data" ELSE "nodata"]

\* const refreshed = await refetchWalletClient()
\* if (refreshed.data) activeWalletClient = refreshed.data
Adopt(op, data) ==
    IF IsSome(data)
    THEN [op EXCEPT !.activeWalletClient = data, !.refreshed = data,
                    !.refetch = "data", !.pc = "reresolve"]
    ELSE [op EXCEPT !.refetch = "nodata", !.pc = "reresolve"]

Refetch(op, clients) ==
    /\ op.pc = "refetch"
    /\ Runnable(op)
    /\ UNCHANGED clicks
    /\ \E data \in {None} \cup {Some(c) : c \in clients} :
          Apply(op, Await(Adopt(op, data)))
    /\ UNCHANGED walletVars

\* currentChainId = await resolveChainId()
Reresolve(op) ==
    /\ op.pc = "reresolve"
    /\ Runnable(op)
    /\ UNCHANGED clicks
    /\ LET c == resolveChainId(Get(op.activeWalletClient)) IN
          Apply(op, AfterReresolve([op EXCEPT !.currentChainId = c]))
    /\ UNCHANGED walletVars

\* const result = await onboarding.<operation>(...)
SdkResults(op, safes) ==
    IF op.step \in {"deploy", "onboard"} THEN {DeployResult(a) : a \in safes}
    ELSE {CallResult(op)}

\* SdkCall that issues the call again when it was rejected.
SdkCallRetried(op, safes) ==
    /\ op.pc = "sdk"
    /\ Runnable(op)
    /\ UNCHANGED clicks
    /\ \/ \E result \in SdkResults(op, safes) : Succeed(op, result)
       \/ /\ UNCHANGED <<stepVars, onboardVars, formVars, inflight>>
          /\ last' = Event("sdkCall", op.step, "retry", Some(op))
    /\ UNCHANGED walletVars

SdkCall(op, safes) ==
    /\ op.pc = "sdk"
    /\ Runnable(op)
    /\ UNCHANGED clicks
    /\ \/ \E result \in SdkResults(op, safes) : Succeed(op, result)
       \/ \E error \in Thrown : Catch(op, op, error)
    /\ UNCHANGED walletVars

(***************************************************************************)
(* The handlers' synchronous prefixes                                      *)
(***************************************************************************)
\* Reject in a handler that marks the step active before its checks.
RejectMarked(step, message) ==
    /\ SetError(step, Some(message))
    /\ SetPhase(step, "error")
    /\ activeStep' = step
    /\ UNCHANGED <<resultVars, deploymentResult, formVars, inflight>>
    /\ last' = Event("preflight", step, message, None)

\* A pre-flight failure: setXError(message); setXPhase('error'); return
Reject(step, message) ==
    /\ SetError(step, Some(message))
    /\ SetPhase(step, "error")
    /\ UNCHANGED <<resultVars, deploymentResult, activeStep, formVars, inflight>>
    /\ last' = Event("preflight", step, message, None)

Start(op) ==
    /\ inflight' = Put(op)
    /\ last' = Event("start", op.step, "", Some(op))

\* safeResult?.safeAddress, safeResult?.multiSendCallOnly
safeAddress == IF IsSome(safeResult) THEN Get(safeResult).safeAddress ELSE <<>>
multiSendCallOnly == IF IsSome(safeResult) THEN Get(safeResult).multiSendCallOnly ELSE ""
\* MissingSafe with the check left out.
MissingSafeUnchecked == FALSE

\* if (!safeResult?.safeAddress)
MissingSafe == safeAddress = <<>>

\* handleDeploySafe that clears the later steps' errors and results and
\* leaves their phases as they are.
handleDeploySafeKeepingPhases ==
    IF ~publicClient THEN Reject("deploy", MsgPublicClient)
    ELSE /\ activeStep' = "deploy"
         /\ deployPhase' = "running"
         /\ deployError' = None
         /\ permissionsError' = None
         /\ permissionsResult' = None
         /\ transferError' = None
         /\ transferResult' = None
         /\ transferBackError' = None
         /\ transferBackResult' = None
         /\ safeResult' = None
         /\ UNCHANGED <<permissionsPhase, transferPhase, transferBackPhase,
                        onboardVars, formVars>>
         /\ Start(NewOp("deploy", <<>>, "", <<>>, <<>>))

handleDeploySafe ==
    IF ~publicClient THEN Reject("deploy", MsgPublicClient)
    ELSE /\ activeStep' = "deploy"
         /\ deployPhase' = "running"
         /\ deployError' = None
         /\ permissionsPhase' = "idle"
         /\ permissionsError' = None
         /\ permissionsResult' = None
         /\ transferPhase' = "idle"
         /\ transferError' = None
         /\ transferResult' = None
         /\ transferBackPhase' = "idle"
         /\ transferBackError' = None
         /\ transferBackResult' = None
         /\ safeResult' = None
         /\ UNCHANGED <<onboardVars, formVars>>
         /\ Start(NewOp("deploy", <<>>, "", <<>>, <<>>))

handleSetPermissions ==
    IF ~publicClient THEN Reject("permissions", MsgPublicClient)
    ELSE IF MissingSafe THEN Reject("permissions", MsgDeployFirst)
    ELSE /\ activeStep' = "permissions"
         /\ permissionsPhase' = "running"
         /\ permissionsError' = None
         /\ transferPhase' = "idle"
         /\ transferError' = None
         /\ transferResult' = None
         /\ transferBackPhase' = "idle"
         /\ transferBackError' = None
         /\ transferBackResult' = None
         /\ UNCHANGED <<deployPhase, deployError, safeResult, permissionsResult,
                        onboardVars, formVars>>
         /\ Start(NewOp("permissions", safeAddress, multiSendCallOnly, <<>>, <<>>))

handleTransfer ==
    IF ~publicClient THEN Reject("transfer", MsgPublicClient)
    ELSE IF MissingSafe THEN Reject("transfer", MsgDeployFirst)
    ELSE LET tokenAddress == Trim(transferAddress)
             amount == Trim(transferAmount)
         IN  IF TransferAddressInvalid(tokenAddress) THEN Reject("transfer", MsgTokenAddress)
             ELSE IF AmountMissing(amount) THEN Reject("transfer", MsgAmount)
             ELSE /\ activeStep' = "transfer"
                  /\ transferPhase' = "running"
                  /\ transferError' = None
                  /\ UNCHANGED <<deployPhase, permissionsPhase, transferBackPhase,
                                 deployError, permissionsError, transferBackError,
                                 resultVars, onboardVars, formVars>>
                  /\ Start(NewOp("transfer", safeAddress, "", tokenAddress, amount))

handleTransferBack ==
    IF ~publicClient THEN Reject("transferBack", MsgPublicClient)
    ELSE LET safeAddressInput == Trim(transferBackSafeAddress)
             tokenAddress == Trim(transferBackAddress)
             amount == Trim(transferBackAmount)
         IN  IF TransferBackSafeAddressInvalid(safeAddressInput)
             THEN Reject("transferBack", MsgSafeAddress)
             ELSE IF TransferBackAddressInvalid(tokenAddress)
             THEN Reject("transferBack", MsgTokenAddress)
             ELSE IF AmountMissing(amount) THEN Reject("transferBack", MsgAmount)
             ELSE /\ activeStep' = "transferBack"
                  /\ transferBackPhase' = "running"
                  /\ transferBackError' = None
                  /\ UNCHANGED <<deployPhase, permissionsPhase, transferPhase,
                                 deployError, permissionsError, transferError,
                                 resultVars, onboardVars, formVars>>
                  /\ Start(NewOp("transferBack", safeAddressInput, "",
                                 tokenAddress, amount))

\* The single-step App.
handleOnboard ==
    IF walletClient = None \/ ~publicClient THEN Reject("onboard", MsgOnboardClients)
    ELSE /\ onboardingPhase' = "running"
         /\ onboardingError' = None
         /\ deploymentResult' = None
         /\ UNCHANGED <<stepVars, formVars>>
         /\ Start(NewOp("onboard", <<>>, "", <<>>, <<>>))

(***************************************************************************)
(* Rendering: which triggers are enabled                                   *)
(***************************************************************************)
isOnBase == chainId = BaseId
canInteract == isConnected /\ isOnBase /\ publicClient

DeployDisabled == ~canInteract \/ activeStep = "deploy"
PermissionsDisabled == ~canInteract \/ safeResult = None \/ activeStep = "permissions"
TransferDisabled == ~canInteract \/ safeResult = None \/ activeStep = "transfer"
TransferBackDisabled == ~canInteract \/ activeStep = "transferBack"
OnboardDisabled == ~isConnected \/ onboardingPhase = "running" \/ ~isOnBase

Disabled(step) ==
    CASE step = "deploy" -> DeployDisabled
      [] step = "permissions" -> PermissionsDisabled
      [] step = "transfer" -> TransferDisabled
      [] step = "transferBack" -> TransferBackDisabled
      [] step = "onboard" -> OnboardDisabled

(***************************************************************************)
(* User and wallet events                                                  *)
(***************************************************************************)
InFlight == BagCardinality(inflight)

\* Bounds of the model: handler invocations in all (Spec, SpecWallet,
\* SpecHandlers), and suspended at once.
MaxClicks == 3
MaxWalletClicks == 2
MaxHandlerClicks == 2
MaxInFlight == 2

\* One invocation of a handler (its synchronous prefix).
Invoke(step, limit, maxClicks) ==
    /\ Idle
    /\ InFlight < limit
    /\ clicks < maxClicks
    /\ clicks' = clicks + 1
    /\ CASE step = "deploy" -> handleDeploySafe
         [] step = "permissions" -> handleSetPermissions
         [] step = "transfer" -> handleTransfer
         [] step = "transferBack" -> handleTransferBack
         [] step = "onboard" -> handleOnboard
    /\ UNCHANGED walletVars

\* onClick={handleX} of a button that is not disabled.
Click(step, limit, maxClicks) == ~Disabled(step) /\ Invoke(step, limit, maxClicks)

WalletEvent == last' = Event("wallet", "none", "", None) /\ UNCHANGED clicks

\* connectors of main.tsx; handleConnect returns when the id names none of them.
Connectors == {"metaMask", "walletConnect"}
handleConnect(connectorId, clients) ==
    /\ Idle
    /\ ~isConnected
    /\ IF connectorId \notin Connectors
       THEN UNCHANGED walletVars
       ELSE /\ isConnected' = TRUE
            /\ walletClient' \in {None} \cup {Some(c) : c \in clients}
            /\ UNCHANGED <<chainId, publicClient, providerChain>>
    /\ WalletEvent
    /\ UNCHANGED <<stepVars, formVars, onboardVars, inflight>>

\* Disconnect that also starts the flow over, dropping the deploy result.
DisconnectResetting ==
    /\ Idle
    /\ isConnected
    /\ isConnected' = FALSE
    /\ walletClient' = None
    /\ WalletEvent
    /\ safeResult' = None
    /\ deployPhase' = "idle"
    /\ UNCHANGED <<chainId, publicClient, providerChain, permissionsPhase, transferPhase,
                   transferBackPhase, errorVars, permissionsResult, transferResult,
                   transferBackResult, activeStep, formVars, onboardVars, inflight>>

\* onClick={() => disconnect()}
Disconnect ==
    /\ Idle
    /\ isConnected
    /\ isConnected' = FALSE
    /\ walletClient' = None
    /\ WalletEvent
    /\ UNCHANGED <<chainId, publicClient, providerChain, stepVars, formVars,
                   onboardVars, inflight>>

\* useWalletClient() answers a (new) handle: the query finished loading, or
\* the account or the chain of the connection changed.
WalletClientChanged(clients) ==
    /\ Idle
    /\ isConnected
    /\ \E c \in clients : walletClient' = Some(c) /\ walletClient # Some(c)
    /\ WalletEvent
    /\ UNCHANGED <<isConnected, chainId, publicClient, providerChain, stepVars,
                   formVars, onboardVars, inflight>>

\* The user changes the network in the wallet; useChainId() follows when the
\* chain is one the configuration knows.
ChainChanged(c, follows) ==
    /\ Idle
    /\ isConnected
    /\ c # providerChain
    /\ providerChain' = c
    /\ chainId' = IF follows THEN c ELSE chainId
    /\ WalletEvent
    /\ UNCHANGED <<isConnected, publicClient, walletClient, stepVars, formVars,
                   onboardVars, inflight>>

\* usePublicClient() answers undefined for a chain without a transport.
PublicClientChanged ==
    /\ Idle
    /\ publicClient' = ~publicClient
    /\ WalletEvent
    /\ UNCHANGED <<isConnected, chainId, walletClient, providerChain, stepVars,
                   formVars, onboardVars, inflight>>

\* onChange={(event) => setX(event.target.value)}
Edit(field, value) ==
    /\ Idle
    /\ transferBackSafeAddress' =
          IF field = "transferBackSafeAddress" THEN value ELSE transferBackSafeAddress
    /\ transferAddress' = IF field = "transferAddress" THEN value ELSE transferAddress
    /\ transferAmount' = IF field = "transferAmount" THEN value ELSE transferAmount
    /\ transferBackAddress' =
          IF field = "transferBackAddress" THEN value ELSE transferBackAddress
    /\ transferBackAmount' =
          IF field = "transferBackAmount" THEN value ELSE transferBackAmount
    /\ formVars' # formVars
    /\ last' = Event("edit", "none", "", None)
    /\ UNCHANGED clicks
    /\ UNCHANGED <<walletVars, stepVars, onboardVars, inflight>>

Field(field) ==
    CASE field = "transferBackSafeAddress" -> transferBackSafeAddress
      [] field = "transferAddress" -> transferAddress
      [] field = "transferAmount" -> transferAmount
      [] field = "transferBackAddress" -> transferBackAddress
      [] field = "transferBackAmount" -> transferBackAmount
AddressFields == {"transferBackSafeAddress", "transferAddress", "transferBackAddress"}
\* The user fills the forms in this order, each field once.
FillOrder ==
    <<"transferBackSafeAddress", "transferBackAddress", "transferBackAmount",
      "transferAddress", "transferAmount">>
Fill(i, address, amount) ==
    /\ \A j \in 1..Len(FillOrder) : Field(FillOrder[j]) = <<>> <=> j >= i
    /\ Edit(FillOrder[i], IF FillOrder[i] \in AddressFields THEN address ELSE amount)

Init ==
    /\ isConnected = FALSE
    /\ chainId = BaseId
    /\ publicClient = TRUE
    /\ walletClient = None
    /\ providerChain = BaseId
    /\ deployPhase = "idle" /\ permissionsPhase = "idle"
    /\ transferPhase = "idle" /\ transferBackPhase = "idle"
    /\ deployError = None /\ permissionsError = None
    /\ transferError = None /\ transferBackError = None
    /\ safeResult = None /\ permissionsResult = None
    /\ transferResult = None /\ transferBackResult = None
    /\ transferBackSafeAddress = <<>> /\ transferAddress = <<>> /\ transferAmount = <<>>
    /\ transferBackAddress = <<>> /\ transferBackAmount = <<>>
    /\ activeStep = NoStep
    /\ onboardingPhase = "idle" /\ onboardingError = None /\ deploymentResult = None
    /\ inflight = EmptyBag
    /\ clicks = 0
    /\ last = Event("init", "none", "", None)

(***************************************************************************)
(* Spec: the multi-step App with every interleaving of its handlers, the   *)
(* wallet on Base.                                                         *)
(***************************************************************************)
Next ==
    \/ \E id \in Connectors \cup {"unknown"} : handleConnect(id, ReadyWalletClients)
    \/ Disconnect
    \/ \E i \in 1..Len(FillOrder) : Fill(i, PaddedAddress, <<"1", "0">>)
    \/ \E step \in Steps : Click(step, MaxInFlight, MaxClicks)
    \/ \E op \in Ops : Resolve(op, {TRUE})
    \/ \E op \in Ops : SdkCall(op, {SafeA, SafeB})

Spec == Init /\ [][Next]_vars

(***************************************************************************)
(* SpecWallet: one handler invocation at a time (of the multi-step App or  *)
(* of the single-step App) against every kind of wallet client handle,     *)
(* with the wallet changing its network on its own.  The operation is the  *)
(* first click, or a dependent step (set permissions, transfer) clicked    *)
(* after an earlier one.                                                   *)
(***************************************************************************)
NextWallet ==
    \/ handleConnect("metaMask", AllWalletClients)
    \/ \E c \in {BaseId, OtherId} : ChainChanged(c, FALSE)
    \/ \E i \in 1..Len(FillOrder) : Fill(i, GoodAddress, <<"1", "0">>)
    \/ \E step \in Steps \cup {"onboard"} :
          /\ clicks = 0 \/ step \in {"permissions", "transfer"}
          /\ Click(step, 1, MaxWalletClicks)
    \/ \E op \in Ops : Resolve(op, BOOLEAN)
    \/ \E op \in Ops : SwitchChain(op, BOOLEAN)
    \/ \E op \in Ops : SwitchChainAsync(op, BOOLEAN)
    \/ \E op \in Ops : Refetch(op, AllWalletClients)
    \/ \E op \in Ops : Reresolve(op)
    \/ \E op \in Ops : SdkCall(op, {SafeA})

SpecWallet == Init /\ [][NextWallet]_vars

(***************************************************************************)
(* SpecHandlers: the four handlers invoked whatever the buttons show, one  *)
(* at a time, on whatever was typed into the forms before.                 *)
(***************************************************************************)
TypedAddresses == {PaddedAddress, ShortAddress, NoPrefixAddress}
TypedAmounts == {Blank, <<" ", "0", "x", "f", " ">>, <<"a", "b", "c">>}

NextHandlers ==
    \/ handleConnect("metaMask", ReadyWalletClients)
    \/ PublicClientChanged
    \/ \E i \in 1..Len(FillOrder), address \in TypedAddresses, amount \in TypedAmounts :
          clicks = 0 /\ Fill(i, address, amount)
    \/ \E step \in Steps : Invoke(step, 1, MaxHandlerClicks)
    \/ \E op \in Ops : Resolve(op, {TRUE})
    \/ \E op \in Ops : SdkCall(op, {SafeA})

SpecHandlers == Init /\ [][NextHandlers]_vars

(***************************************************************************)
(* Reading the state                                                       *)
(***************************************************************************)
Phase(step) ==
    CASE step = "deploy" -> deployPhase
      [] step = "permissions" -> permissionsPhase
      [] step = "transfer" -> transferPhase
      [] step = "transferBack" -> transferBackPhase
      [] OTHER -> onboardingPhase
ErrorOf(step) ==
    CASE step = "deploy" -> deployError
      [] step = "permissions" -> permissionsError
      [] step = "transfer" -> transferError
      [] step = "transferBack" -> transferBackError
      [] OTHER -> onboardingError
ResultOf(step) ==
    CASE step = "deploy" -> safeResult
      [] step = "permissions" -> permissionsResult
      [] step = "transfer" -> transferResult
      [] step = "transferBack" -> transferBackResult
      [] OTHER -> deploymentResult
Running == {step \in Steps : Phase(step) = "running"}

(***************************************************************************)
(* C1, C2: serialisation of the four steps                                 *)
(***************************************************************************)
\* C1: in every reachable state at most one of the four step phases is
\* running.  The code refutes it: each button is disabled by its own step
\* only, so a second step starts while the first one is awaiting.
C1_AtMostOneRunning == Cardinality(Running) <= 1

\* C2: a trigger is enabled only when canInteract holds and no step at all
\* is active; while activeStep is non-null every trigger is disabled.  The
\* code refutes it: disabled={... || activeStep === '<own step>'}.
C2_TriggersDisabledWhileActive ==
    \A step \in Steps :
        ~Disabled(step) => canInteract /\ activeStep = NoStep

(***************************************************************************)
(* C3: the session handed to the SDK                                       *)
(***************************************************************************)
\* C3: every SDK call (of the four steps and of handleOnboard) is made with
\* a session validated in the same operation: at the moment the call is
\* issued the handle's chain id, resolved through chain.id or else
\* getChainId(), is Base, the handle has an account, and that handle (for
\* handleOnboard: its Base-bound copy) is the one the SDK receives; and
\* every call still pending was issued after such a validation.
C3_SdkSessionValidated ==
    /\ last.kind = "sdkCall" =>
          LET op == Get(last.op) IN
          /\ op \in Ops
          /\ resolveChainId(Get(op.activeWalletClient)) = BaseId
    /\ \A op \in Ops :
          op.pc = "sdk" =>
             /\ op.walletClient # None
             /\ op.currentChainId = BaseId
             /\ Get(op.activeWalletClient).account
             /\ IsSome(op.sdkWalletClient)
             /\ Get(op.sdkWalletClient).account
             /\ IF op.step = "onboard"
                THEN Get(op.sdkWalletClient).chain = BaseId
                ELSE op.sdkWalletClient = op.activeWalletClient

\* An SDK call issued after a negotiation: the session was on another chain
\* and the provider-level switch moved it to Base.
C3_Witness ==
    /\ last.kind = "sdkCall"
    /\ Get(last.op).firstChainId = OtherId
    /\ Get(last.op).providerSwitch = "ok"

(***************************************************************************)
(* C4, C5: the negotiation of the chain                                    *)
(***************************************************************************)
\* The operations of the four steps whose session first resolved to a chain
\* other than Base and whose in-session switch succeeded, at their SDK call.
SwitchedInSession(op) ==
    /\ op.step \in Steps
    /\ op.pc = "sdk"
    /\ op.firstChainId # BaseId
    /\ op.sessionSwitch = "ok"

\* C4 as stated: after a successful in-session switch the SDK receives the
\* refreshed handle, never the original one.
C4_AlwaysRefreshed ==
    \A op \in Ops :
        SwitchedInSession(op) =>
            IsSome(op.refreshed) /\ op.sdkWalletClient = op.refreshed

\* C4 amended: after a successful in-session switch the SDK receives the
\* refreshed handle when the refresh returned one; when there is no refresh
\* function or the refresh returned no handle, the SDK receives the original
\* handle, whose chain id re-resolved to Base.
C4_RefreshedWhenReturned ==
    \A op \in Ops :
        SwitchedInSession(op) =>
            /\ op.refetch \in {"data", "nodata", "absent"}
            /\ op.refetch = "data" <=> IsSome(op.refreshed)
            /\ op.sdkWalletClient = (IF IsSome(op.refreshed) THEN op.refreshed
                                     ELSE op.walletClient)
            /\ op.currentChainId = BaseId

\* The SDK call of an operation that switched in session and adopted a
\* refreshed handle different from the one it was triggered with.
C4_Witness ==
    \E op \in Ops :
        /\ SwitchedInSession(op)
        /\ IsSome(op.refreshed)
        /\ op.refreshed # op.walletClient
        /\ op.sdkWalletClient = op.refreshed

\* The last event ends (or issues the SDK call of) an operation of the four
\* steps that found its session on a chain other than Base and had no switch
\* path succeed: the in-session switch absent or failed, the provider-level
\* switch absent or failed.
NoSwitchSucceeded ==
    /\ last.kind \in {"failure", "sdkCall", "success"}
    /\ last.step \in Steps
    /\ Get(last.op).firstChainId \in {OtherId, Undefined}
    /\ Get(last.op).sessionSwitch \in {"absent", "failed"}
    /\ Get(last.op).providerSwitch \in {"absent", "failed"}

\* The step of the last event is in phase error with that event's message.
EndedInError ==
    /\ last.kind = "failure"
    /\ Get(last.op).pc # "sdk"
    /\ Get(last.op).sdkWalletClient = None
    /\ Phase(last.step) = "error"
    /\ ErrorOf(last.step) = Some(last.message)

\* C5 as stated: with the session on the wrong chain and no switch path
\* succeeding, the operation ends in phase error with the network-mismatch
\* message and no SDK call.
C5_NoSwitchNetworkMismatch ==
    NoSwitchSucceeded => EndedInError /\ last.message = MsgNetwork

\* C5 amended: with the session on the wrong chain and no switch path
\* succeeding, the operation ends in phase error with no SDK call when the
\* provider-level switch failed, and then its message is that failure's
\* message or the step's fallback; when no switch was available or only the
\* in-session switch failed, and the chain id re-resolved afterwards is still
\* not Base, it ends in phase error with the network-mismatch message and no
\* SDK call.
C5_NoSwitchEndsInError ==
    NoSwitchSucceeded =>
        LET op == Get(last.op) IN
        /\ op.providerSwitch = "failed" =>
              /\ EndedInError
              /\ op.pc = "switchChainAsync"
              /\ last.message \in {ProviderError.message, Fallback(last.step)}
        /\ op.providerSwitch = "absent" /\ op.currentChainId # BaseId =>
              /\ EndedInError
              /\ op.pc = "reresolve"
              /\ last.message = MsgNetwork

\* An operation whose in-session switch failed, with no provider-level
\* switch, ended with the network-mismatch message.
C5_Witness ==
    /\ NoSwitchSucceeded
    /\ Get(last.op).sessionSwitch = "failed"
    /\ Get(last.op).providerSwitch = "absent"
    /\ Get(last.op).currentChainId = OtherId
    /\ EndedInError
    /\ last.message = MsgNetwork

(***************************************************************************)
(* C6 - C10: the handlers' pre-flight checks                               *)
(***************************************************************************)
\* The last event is an invocation of the step's handler: it rejected the
\* invocation or started an operation.  A handler leaves the form inputs,
\* publicClient and safeResult (but for deploy) as it read them.
Submitted(step) == last.step = step /\ last.kind \in {"preflight", "start"}

\* The invocation ended in its pre-flight checks: phase error with the
\* message shown, and no operation in flight.
Rejected ==
    /\ last.kind = "preflight"
    /\ Phase(last.step) = "error"
    /\ ErrorOf(last.step) = Some(last.message)
    /\ inflight = EmptyBag

\* What String.prototype.trim leaves of an input: the characters from its
\* first to its last non-whitespace one.
FirstInk(s) ==
    IF \A k \in 1..Len(s) : IsWhitespace(s[k]) THEN Len(s) + 1
    ELSE CHOOSE i \in 1..Len(s) :
            ~IsWhitespace(s[i]) /\ \A k \in 1..(i - 1) : IsWhitespace(s[k])
LastInk(s) ==
    IF \A k \in 1..Len(s) : IsWhitespace(s[k]) THEN 0
    ELSE CHOOSE j \in 1..Len(s) :
            ~IsWhitespace(s[j]) /\ \A k \in (j + 1)..Len(s) : IsWhitespace(s[k])
Stripped(s) == SubSeq(s, FirstInk(s), LastInk(s))

\* A 0x-prefixed string of 42 characters.
WellFormed(t) ==
    IF Len(t) # AddressLength THEN FALSE ELSE t[1] = "0" /\ t[2] = "x"
Malformed(input) == ~WellFormed(Stripped(input))

C7_DeploySuccessFindsOthersReset ==
    last.kind = "success" /\ last.step = "deploy" =>
        \A step \in Steps \ {"deploy"} :
            Phase(step) = "idle" /\ ResultOf(step) = None /\ ErrorOf(step) = None

\* C8: a token address that, trimmed, does not start with 0x or is not 42
\* characters long ends transfer-in and transfer-out in phase error with a
\* validation message and no SDK call; so does transfer-out's account
\* address; an operation in flight carries well-formed addresses only.
C8_MalformedAddressRejected ==
    /\ Submitted("transfer") /\ Malformed(transferAddress) =>
          /\ Rejected
          /\ publicClient /\ IsSome(safeResult) => last.message = MsgTokenAddress
    /\ Submitted("transferBack") /\ Malformed(transferBackSafeAddress) =>
          /\ Rejected
          /\ publicClient => last.message = MsgSafeAddress
    /\ Submitted("transferBack") /\ Malformed(transferBackAddress) =>
          /\ Rejected
          /\ publicClient /\ ~Malformed(transferBackSafeAddress) =>
                last.message = MsgTokenAddress
    /\ \A op \in Ops :
          /\ op.step \in {"transfer", "transferBack"} => WellFormed(op.assetAddress)
          /\ op.step = "transferBack" => WellFormed(op.safeAddress)

\* Transfer-in rejected for a token address of 41 characters.
C8_Witness ==
    /\ Submitted("transfer")
    /\ Len(Stripped(transferAddress)) = AddressLength - 1
    /\ Rejected
    /\ last.message = MsgTokenAddress

\* The amount input of a transfer step.
AmountInput(step) == IF step = "transfer" THEN transferAmount ELSE transferBackAmount
\* The other pre-flight checks of a transfer step pass.
AmountDecides(step) ==
    /\ publicClient
    /\ IF step = "transfer" THEN IsSome(safeResult) /\ ~Malformed(transferAddress)
       ELSE ~Malformed(transferBackSafeAddress) /\ ~Malformed(transferBackAddress)

\* C9: an amount that is empty or only whitespace ends transfer-in and
\* transfer-out in phase error with a validation message and no SDK call;
\* every other amount passes the amount check and reaches the SDK trimmed
\* and otherwise unchanged.
C9_AmountValidation ==
    \A step \in {"transfer", "transferBack"} :
        /\ Submitted(step) /\ Stripped(AmountInput(step)) = <<>> =>
              /\ Rejected
              /\ AmountDecides(step) => last.message = MsgAmount
        /\ Submitted(step) /\ Stripped(AmountInput(step)) # <<>> =>
              /\ last.message # MsgAmount
              /\ AmountDecides(step) => last.kind = "start"
        /\ \A op \in Ops :
              op.step = step =>
                  op.amount # <<>> /\ op.amount = Stripped(AmountInput(step))

\* Transfer-out at its SDK call with an amount that is no number and was
\* typed with surrounding whitespace.
C9_Witness ==
    /\ last.kind = "sdkCall"
    /\ last.step = "transferBack"
    /\ transferBackAmount = <<" ", "0", "x", "f", " ">>
    /\ Get(last.op).amount = <<"0", "x", "f">>

\* A pre-flight check of the step's handler fails.
PreflightFails(step) ==
    \/ ~publicClient
    \/ step \in {"permissions", "transfer"} /\ safeResult = None
    \/ step = "transfer" /\ Malformed(transferAddress)
    \/ step = "transferBack" /\ Malformed(transferBackSafeAddress)
    \/ step = "transferBack" /\ Malformed(transferBackAddress)
    \/ step \in {"transfer", "transferBack"} /\ Stripped(AmountInput(step)) = <<>>

\* C10: an invocation that fails a pre-flight check (missing network
\* client, missing deploy result, malformed address, empty amount) sets the
\* step's phase to error and its message in that one step, never running,
\* and changes nothing else: not the active-step marker, no operation is
\* created (so no negotiation, no chain switch, no SDK call), the wallet is
\* untouched, and every result and every other step's phase and error stay.
C10_PreflightFailureStartsNothing ==
    [][\A step \in Steps :
          clicks' = clicks + 1 /\ last'.step = step /\ PreflightFails(step) =>
              /\ last'.kind = "preflight"
              /\ Phase(step)' = "error"
              /\ ErrorOf(step)' = Some(last'.message)
              /\ activeStep' = activeStep
              /\ inflight' = inflight
              /\ walletVars' = walletVars
              /\ resultVars' = resultVars
              /\ formVars' = formVars
              /\ \A other \in Steps \ {step} :
                    /\ Phase(other)' = Phase(other)
                    /\ ErrorOf(other)' = ErrorOf(other)]_vars

\* Set-permissions rejected for the missing deploy result, after transfer-out
\* succeeded: its result and phase are still there.
C10_Witness ==
    /\ last.kind = "preflight"
    /\ last.step = "permissions"
    /\ last.message = MsgDeployFirst
    /\ permissionsPhase = "error"
    /\ transferBackPhase = "success"
    /\ IsSome(transferBackResult)
    /\ activeStep = NoStep

(***************************************************************************)
(* C11 - C13: the life cycle of a step                                     *)
(***************************************************************************)
\* C11: in every state where a step's phase is running, that step's result
\* and error message are none.  The code refutes it: only handleDeploySafe
\* clears its own result; the three other handlers clear their error and
\* keep the result of their previous run.
C11_RunningHasNoResultNoError ==
    \A step \in Steps :
        Phase(step) = "running" => ResultOf(step) = None /\ ErrorOf(step) = None

\* This step of the behaviour is an invocation of the step's handler that
\* entered running.
Enters(step) ==
    /\ clicks' = clicks + 1
    /\ last'.kind = "start"
    /\ last'.step = step

\* C12: when set-permissions, transfer-in or transfer-out enters running,
\* the phase, result and error of every other step stay as they were; when
\* deploy enters running, those of the three other steps become idle, none,
\* none.  The code refutes it: handleSetPermissions resets transfer-in and
\* transfer-out as well.
C12_OnlyDeployResetsOthers ==
    [][/\ \A step \in Steps \ {"deploy"} :
             Enters(step) =>
                 \A other \in Steps \ {step} :
                     /\ Phase(other)' = Phase(other)
                     /\ ResultOf(other)' = ResultOf(other)
                     /\ ErrorOf(other)' = ErrorOf(other)
       /\ Enters("deploy") =>
             \A other \in Steps \ {"deploy"} :
                 /\ Phase(other)' = "idle"
                 /\ ResultOf(other)' = None
                 /\ ErrorOf(other)' = None]_vars

\* C13: a step's phase becomes success only from running, and running is
\* left only to success or error.  The code refutes it: a deploy (or a
\* set-permissions) that starts while another step is running sets that
\* step's phase to idle (the overlap of C1), and the step's operation later
\* moves it from idle to success or error.
C13_PhaseStateMachine ==
    [][\A step \in Steps :
          /\ Phase(step)' = "success" /\ Phase(step) # "success" =>
                Phase(step) = "running"
          /\ Phase(step) = "running" /\ Phase(step)' # "running" =>
                Phase(step)' \in {"success", "error"}]_vars

(***************************************************************************)
(* C14 - C18: completions                                                  *)
(***************************************************************************)
\* This step of the behaviour is the end of an operation of the step, in
\* success or in failure.
Completes(step, kind) ==
    /\ InFlight' = InFlight - 1
    /\ last'.kind = kind
    /\ last'.step = step

\* C14: when the session is on Base from the start and the SDK call of an
\* operation answers a result record, the step's stored result becomes that
\* record and its phase success; the first deploy goes idle, running,
\* success and stores an account address and a transaction hash.
C14_SuccessStoresResult ==
    [][/\ \A step \in Steps :
             Completes(step, "success") =>
                 LET op == Get(last'.op) IN
                 /\ op.pc = "sdk"
                 /\ op.firstChainId = BaseId
                 /\ Phase(step)' = "success"
                 /\ ResultOf(step)' \in {Some(r) : r \in SdkResults(op, {SafeA, SafeB})}
                 /\ step # "deploy" => ResultOf(step)' = Some(CallResult(op))
       /\ clicks = 0 => deployPhase = "idle" /\ safeResult = None
       /\ clicks = 0 /\ Enters("deploy") => deployPhase' = "running"
       /\ clicks = 1 /\ Completes("deploy", "success") =>
             /\ deployPhase = "running"
             /\ deployPhase' = "success"
             /\ Get(safeResult').safeAddress \in {SafeA, SafeB}
             /\ Get(safeResult').transactionHash # ""]_vars

\* The first deploy succeeded and its result is stored.
C14_Witness ==
    /\ clicks = 1
    /\ last.kind = "success"
    /\ last.step = "deploy"
    /\ deployPhase = "success"
    /\ safeResult = Some(DeployResult(SafeA))

\* The messages a failure of the operation can show, by the await it failed
\* at: the negotiator's own errors are Error values; what a provider or the
\* SDK rejects with shows its message when it is an Error value, else the
\* step's fallback.
FailureMessages(op) ==
    CASE op.pc = "resolve" /\ op.walletClient = None -> {MsgWalletClient}
      [] op.pc = "resolve" /\ op.walletClient # None -> {MsgAccount}
      [] op.pc = "reresolve" ->
            IF op.currentChainId # BaseId THEN {MsgNetwork} ELSE {MsgAccount}
      [] op.pc \in {"switchChainAsync", "sdk"} ->
            {ProviderError.message, Fallback(op.step)}
      [] OTHER -> {}

\* C15: an operation that fails in the negotiator or in its SDK call, after
\* its step entered running, ends with the step in phase error and the
\* error's message (the fallback of the step when what was thrown is no
\* Error value) as the step's message; the results and every other step's
\* phase and error stay as they were.
C15_FailureEndsInError ==
    [][\A step \in Steps :
          Completes(step, "failure") =>
              /\ Phase(step)' = "error"
              /\ ErrorOf(step)' = Some(last'.message)
              /\ last'.message \in FailureMessages(Get(last'.op))
              /\ resultVars' = resultVars
              /\ \A other \in Steps \ {step} :
                    /\ Phase(other)' = Phase(other)
                    /\ ErrorOf(other)' = ErrorOf(other)]_vars

\* The SDK call of set-permissions was rejected with a value that is no
\* Error: the fallback is shown, and the deploy result is still there.
C15_Witness ==
    /\ last.kind = "failure"
    /\ last.step = "permissions"
    /\ Get(last.op).pc = "sdk"
    /\ permissionsError = Some("Failed to set permissions.")
    /\ permissionsPhase = "error"
    /\ deployPhase = "success"
    /\ IsSome(safeResult)

\* C16: every operation of the four steps clears the active-step marker
\* when it ends, in success, in a negotiator failure and in an SDK failure:
\* right after an operation ended, activeStep is null.
C16_ActiveStepCleared ==
    [][\A step \in Steps :
          Completes(step, "success") \/ Completes(step, "failure") =>
              activeStep' = NoStep]_vars

\* An operation that had set the marker failed in the negotiator.
C16_Witness ==
    /\ last.kind = "failure"
    /\ last.step = "deploy"
    /\ last.message = MsgNetwork
    /\ activeStep = NoStep

\* The steps that precede a step in the flow.
Preceding(step) ==
    CASE step = "permissions" -> {"deploy"}
      [] step = "transfer" -> {"deploy", "permissions"}
      [] step = "transferBack" -> {"deploy", "permissions", "transfer"}
      [] OTHER -> {}

\* This step of the behaviour is an invocation of the step's handler that
\* failed a pre-flight check.
Rejects(step) ==
    /\ clicks' = clicks + 1
    /\ last'.kind = "preflight"
    /\ last'.step = step

\* C17: when set-permissions, transfer-in or transfer-out fails, in a
\* pre-flight check, in the negotiator or in the SDK call, the phase, result
\* and error of the steps before it in the flow stay as they were; nor did
\* its start change them.
C17_FailureKeepsEarlierSteps ==
    [][\A step \in Steps \ {"deploy"} :
          Rejects(step) \/ Enters(step) \/ Completes(step, "failure") =>
              \A prior \in Preceding(step) :
                  /\ Phase(prior)' = Phase(prior)
                  /\ ResultOf(prior)' = ResultOf(prior)
                  /\ ErrorOf(prior)' = ErrorOf(prior)]_vars

\* Transfer-in failed in its SDK call; the deploy result is still stored.
C17_Witness ==
    /\ last.kind = "failure"
    /\ last.step = "transfer"
    /\ Get(last.op).pc = "sdk"
    /\ transferPhase = "error"
    /\ deployPhase = "success"
    /\ IsSome(safeResult)
    /\ Get(last.op).safeAddress = Get(safeResult).safeAddress

\* The order of the awaits of one handler invocation.
Rank(pc) ==
    CASE pc = "resolve" -> 1
      [] pc = "switchChain" -> 2
      [] pc = "switchChainAsync" -> 3
      [] pc = "refetch" -> 4
      [] pc = "reresolve" -> 5
      [] pc = "sdk" -> 6

\* The three ways the set of pending invocations changes: a trigger adds
\* one, at the start of the negotiation; one moves on to a later await; one
\* ends.
Starts ==
    /\ clicks' = clicks + 1
    /\ last'.kind = "start"
    /\ inflight' = Put(Get(last'.op))
    /\ Get(last'.op).pc = "resolve"
    /\ Get(last'.op).sdkWalletClient = None
Progresses ==
    /\ clicks' = clicks
    /\ \E op \in Ops :
          LET new == Get(last'.op) IN
          /\ inflight' = Replace(op, new)
          /\ new.step = op.step
          /\ Rank(new.pc) > Rank(op.pc)
          /\ last'.kind = "sdkCall" <=> new.pc = "sdk"
          /\ op.sdkWalletClient = None
Ends ==
    /\ clicks' = clicks
    /\ last'.kind \in {"success", "failure"}
    /\ \E op \in Ops : inflight' = Take(op) /\ op.step = last'.step

\* C18: an invocation is created by a user trigger only, one per trigger;
\* it passes each await of the negotiator at most once and issues at most
\* one SDK call; an invocation that failed is gone and none takes its
\* place.  So a step has no more SDK calls than starts.
C18_NoLocalRetries ==
    [][/\ inflight' # inflight => Starts \/ Progresses \/ Ends
       /\ last'.kind = "sdkCall" /\ last' # last => Progresses]_vars

\* An invocation failed in its SDK call and nothing is pending after it.
C18_Witness ==
    /\ last.kind = "failure"
    /\ last.step \in Steps
    /\ Get(last.op).pc = "sdk"
    /\ Get(last.op).switched
    /\ inflight = EmptyBag

(***************************************************************************)
(* C19: termination                                                        *)
(***************************************************************************)
\* A pending call to the wallet provider or to the SDK returns or rejects.
ProviderAnswers ==
    \E op \in Ops :
        \/ Resolve(op, BOOLEAN)
        \/ SwitchChain(op, BOOLEAN)
        \/ SwitchChainAsync(op, BOOLEAN)
        \/ Refetch(op, AllWalletClients)
        \/ Reresolve(op)
        \/ SdkCall(op, {SafeA})

\* SpecWallet, with every pending provider and SDK call answered eventually.
SpecWalletLive == SpecWallet /\ WF_vars(ProviderAnswers)

Again(op) ==
    LET c == resolveChainId(Get(op.activeWalletClient)) IN
    [NewOp(op.step, op.safeAddress, op.multiSendCallOnlyAddress,
           op.assetAddress, op.amount)
        EXCEPT !.walletClient = op.activeWalletClient,
               !.activeWalletClient = op.activeWalletClient,
               !.firstChainId = c, !.currentChainId = c]

\* C20: when the first resolved chain id is Base the negotiator calls
\* neither switch nor the refresh and returns the handle it was given; and
\* run again on a handle it returned, it returns that handle at once.
C20_NegotiatorIdempotent ==
    /\ \A op \in Ops :
          op.firstChainId = BaseId =>
              /\ ~op.switched
              /\ op.sessionSwitch = "skipped"
              /\ op.providerSwitch = "skipped"
              /\ op.refetch = "skipped"
              /\ op.refreshed = None
              /\ op.activeWalletClient = op.walletClient
              /\ op.pc \in {"resolve", "sdk"}
              /\ op.pc = "sdk" /\ op.step \in Steps => op.sdkWalletClient = op.walletClient
    /\ last.kind = "sdkCall" =>
          LET op == Get(last.op) IN
          AfterResolve(Again(op), BOOLEAN) =
              {Await([Again(op) EXCEPT !.pc = "sdk",
                                       !.sdkWalletClient = op.sdkWalletClient])}

\* An SDK call issued on a handle that has a switchChain function and
\* answered Base through getChainId(): no switch was called.
C20_Witness ==
    /\ last.kind = "sdkCall"
    /\ Get(last.op).firstChainId = BaseId
    /\ Get(Get(last.op).walletClient).chain = Undefined
    /\ Get(Get(last.op).walletClient).switchChain
    /\ Get(last.op).sessionSwitch = "skipped"
    /\ Get(last.op).sdkWalletClient = Get(last.op).walletClient

(***************************************************************************)
(* C21 - C23: the branches and the order of the negotiator                 *)
(***************************************************************************)
\* The locals of the invocations: those pending and the one of the last
\* event.
Records == Ops \cup (IF IsSome(last.op) THEN {Get(last.op)} ELSE {})

\* The in-session switch was decided: absent, failed or succeeded.
PastSessionSwitch(r) == r.sessionSwitch \in {"absent", "failed", "ok"}

\* C21 as stated: a failed in-session switch does not end the operation, and
\* the provider-level switch is called exactly when the in-session switch
\* is absent or failed.
C21_ProviderSwitchCalledIffNotSwitched ==
    /\ last.kind = "failure" => Get(last.op).pc # "switchChain"
    /\ \A r \in Records :
          PastSessionSwitch(r) =>
              (r.providerSwitch \in {"pending", "ok", "failed"}
                  <=> r.sessionSwitch \in {"absent", "failed"})

\* C21 amended: a failed in-session switch does not end the operation; the
\* provider-level switch is called exactly when the in-session switch is
\* absent or failed and switchChainAsync is a function, and never when the
\* in-session switch succeeded.
C21_ProviderSwitchCalledIfAvailable ==
    /\ last.kind = "failure" => Get(last.op).pc # "switchChain"
    /\ \A r \in Records :
          PastSessionSwitch(r) =>
              /\ r.providerSwitch \in {"pending", "ok", "failed"}
                    <=> r.sessionSwitch \in {"absent", "failed"}
                        /\ r.providerSwitch # "absent"
              /\ r.providerSwitch = "absent" => r.sessionSwitch \in {"absent", "failed"}
              /\ r.sessionSwitch = "ok" => r.providerSwitch = "skipped" /\ r.switched

\* The in-session switch failed, the provider-level switch then succeeded
\* and the operation reached its SDK call.
C21_Witness ==
    /\ last.kind = "sdkCall"
    /\ Get(last.op).sessionSwitch = "failed"
    /\ Get(last.op).providerSwitch = "ok"

\* C22: when the handle that results from the negotiation, on Base after a
\* switch or without one, has no account, the operation ends in phase error
\* with the account-missing message and no SDK call is issued; a handle on
\* Base that goes on has an account.
C22_MissingAccountFails ==
    /\ \A r \in Records :
          r.currentChainId = BaseId /\ ~Get(r.activeWalletClient).account =>
              /\ r \notin Ops
              /\ r.pc \in {"resolve", "reresolve"}
              /\ r.sdkWalletClient = None
              /\ last.kind = "failure"
              /\ last.message = MsgAccount
              /\ Phase(last.step) = "error"
              /\ ErrorOf(last.step) = Some(MsgAccount)
    /\ last.kind = "failure" /\ last.message = MsgAccount =>
          /\ Get(last.op).currentChainId = BaseId
          /\ ~Get(Get(last.op).activeWalletClient).account

\* The handle adopted after a successful switch is on Base and has no
\* account, while the original one had.
C22_Witness ==
    /\ last.kind = "failure"
    /\ last.message = MsgAccount
    /\ Get(last.op).switched
    /\ Get(last.op).refetch = "data"
    /\ Get(Get(last.op).walletClient).account
    /\ Phase(last.step) = "error"

\* What the locals of an invocation say about the awaits behind it, by the
\* await it is at.
InOrder(r) ==
    /\ r.pc = "resolve" =>
          /\ r.sessionSwitch = "skipped" /\ r.providerSwitch = "skipped"
          /\ r.refetch = "skipped" /\ ~r.switched
    /\ r.pc = "switchChain" =>
          /\ r.firstChainId # BaseId
          /\ r.sessionSwitch = "pending" /\ r.providerSwitch = "skipped"
          /\ r.refetch = "skipped" /\ ~r.switched
    /\ r.pc = "switchChainAsync" =>
          /\ r.sessionSwitch \in {"absent", "failed"}
          /\ r.providerSwitch \in {"pending", "failed"}
          /\ r.refetch = "skipped" /\ ~r.switched
    /\ r.pc = "refetch" =>
          /\ r.switched
          /\ r.sessionSwitch = "ok" \/ r.providerSwitch = "ok"
          /\ r.refetch = "pending"
    /\ r.pc = "reresolve" =>
          /\ r.firstChainId # BaseId
          /\ PastSessionSwitch(r)
          /\ r.providerSwitch \in {"skipped", "absent", "ok"}
          /\ r.refetch \in {"skipped", "absent", "data", "nodata"}
    /\ r.pc = "sdk" =>
          /\ r.currentChainId = BaseId
          /\ Get(r.activeWalletClient).account
          /\ r.sessionSwitch # "pending" /\ r.providerSwitch \notin {"pending", "failed"}
          /\ r.refetch # "pending"
          /\ IsSome(r.sdkWalletClient)

\* The refresh is called only after a switch succeeded, and the active
\* handle is the refreshed one if the refresh returned one, else the one
\* the invocation captured.
RefreshRule(r) ==
    /\ r.refetch \in {"pending", "data", "nodata"} => r.switched
    /\ r.refetch = "skipped" /\ r.pc \in {"reresolve", "sdk"} /\ r.firstChainId # BaseId =>
          ~r.switched
    /\ r.refetch = "data" <=> IsSome(r.refreshed)
    /\ r.activeWalletClient = (IF IsSome(r.refreshed) THEN r.refreshed ELSE r.walletClient)

\* C23: within one invocation the awaits come in the order resolve,
\* in-session switch, provider-level switch, refresh, re-resolve, and the
\* account check and the SDK call come last; the refresh is called only
\* after a switch succeeded; the refreshed handle becomes the active one
\* only if the refresh returned one; the chain id is re-resolved on the
\* handle that is active after the refresh.
C23_NegotiatorOrder ==
    [][/\ \A r \in Records : InOrder(r) /\ RefreshRule(r)
       /\ \A op \in Ops :
             IsSome(last'.op) /\ clicks' = clicks
                 /\ (inflight' = Replace(op, Get(last'.op)) \/ inflight' = Take(op)) =>
                 LET new == Get(last'.op) IN
                 /\ new.pc # op.pc => Rank(new.pc) > Rank(op.pc)
                 /\ op.pc = "reresolve" =>
                       /\ new.activeWalletClient = op.activeWalletClient
                       /\ new.currentChainId = resolveChainId(Get(op.activeWalletClient))]_vars

\* The whole sequence in one invocation: the in-session switch failed, the
\* provider-level switch succeeded, the refresh returned another handle,
\* and the SDK call was issued with it.
C23_Witness ==
    /\ last.kind = "sdkCall"
    /\ Get(last.op).sessionSwitch = "failed"
    /\ Get(last.op).providerSwitch = "ok"
    /\ Get(last.op).refetch = "data"
    /\ Get(last.op).refreshed # Get(last.op).walletClient
    /\ Get(last.op).sdkWalletClient = Get(last.op).refreshed

(***************************************************************************)
(* The single-step App's network client: a Proxy around the client wagmi   *)
(* gives, which the SDK reads contracts through.                           *)
(***************************************************************************)
\* The text the proxy looks for in a failure's message.
ReturnedNoData == <<"r", "e", "t", "u", "r", "n", "e", "d", " ", "n", "o", " ", "d", "a", "t", "a">>

\* Messages the underlying readContract fails with.
TextNoData == ReturnedNoData
TextNoDataInside == <<"c", "a", "l", "l", " ", "r", "e", "t", "u", "r", "n", "e", "d", " ", "n", "o", " ", "d", "a", "t", "a", " ", "(", "\"", "0", "x", "\"", ")">>
TextReverted == <<"e", "x", "e", "c", "u", "t", "i", "o", "n", " ", "r", "e", "v", "e", "r", "t", "e", "d">>
TextTruncated == <<"r", "e", "t", "u", "r", "n", "e", "d", " ", "n", "o", " ", "d", "a", "t">>
TextCapital == <<"R", "e", "t", "u", "r", "n", "e", "d", " ", "n", "o", " ", "d", "a", "t", "a">>
TextSpaced == <<"r", "e", "t", "u", "r", "n", "e", "d", " ", " ", "n", "o", " ", "d", "a", "t", "a">>
Texts == {TextNoData, TextNoDataInside, TextReverted, TextTruncated, TextCapital,
          TextSpaced, <<>>}

\* What a call settles with: a returned value, or a thrown value that is an
\* Error with a name and a message or a bare string.
JsError(name, message) == [isError |-> TRUE, name |-> name, message |-> message]
JsString(text) == [isError |-> FALSE, name |-> "", message |-> text]
Returned(value) == [threw |-> FALSE, value |-> value, error |-> JsString(<<>>)]
Threw(error) == [threw |-> TRUE, value |-> "", error |-> error]
Outcomes ==
    {Returned(v) : v \in {"0x", "owners"}}
        \cup {Threw(JsError(n, m)) :
                n \in {"ContractFunctionExecutionError", "Error"}, m \in Texts}
        \cup {Threw(JsString(m)) : m \in Texts}

\* message.includes(text)
Includes(message, text) ==
    \E i \in 0..(Len(message) - Len(text)) :
        SubSeq(message, i + 1, i + Len(text)) = text

\* error instanceof Error ? error.message : String(error)
MessageOf(error) == error.message

ZeroDataName == "ContractFunctionZeroDataError"
ZeroDataPrefix == <<"C", "o", "n", "t", "r", "a", "c", "t", "F", "u", "n", "c", "t", "i", "o", "n", "Z", "e", "r", "o", "D", "a", "t", "a", "E", "r", "r", "o", "r", ":", " ">>

\* The wrapper that renames a failure only if its message is the text.
readContractExact(outcome) ==
    IF ~outcome.threw THEN outcome
    ELSE IF MessageOf(outcome.error) = ReturnedNoData
         THEN Threw(JsError(ZeroDataName, ZeroDataPrefix \o MessageOf(outcome.error)))
         ELSE outcome

\* try { return await target.readContract(...args) } catch (error) { ... }
readContract(outcome) ==
    IF ~outcome.threw THEN outcome
    ELSE IF Includes(MessageOf(outcome.error), ReturnedNoData)
         THEN Threw(JsError(ZeroDataName, ZeroDataPrefix \o MessageOf(outcome.error)))
         ELSE outcome

\* The underlying client's properties: methods, plain values, and names it
\* does not have.
Method(name) == [type |-> "function", name |-> name, boundTo |-> "unbound"]
Plain(value) == [type |-> "value", name |-> value, boundTo |-> "unbound"]
Target ==
    [readContract |-> Method("readContract"), getBlockNumber |-> Method("getBlockNumber"),
     getBalance |-> Method("getBalance"), chain |-> Plain("base"),
     transport |-> Plain("http"), missing |-> Plain("undefined")]
Props == DOMAIN Target

\* Reflect.get(target, prop, receiver), a function bound to the target.
get(prop) ==
    IF prop = "readContract" THEN [Method("readContract") EXCEPT !.boundTo = "wrapper"]
    ELSE IF Target[prop].type = "function"
         THEN [Target[prop] EXCEPT !.boundTo = "target"]
         ELSE Target[prop]

\* The object a function runs on when called as a method of receiver.
ThisOf(value, receiver) == IF value.boundTo = "unbound" THEN receiver ELSE value.boundTo

\* The SDK reads a contract through the wrapped client while its call is
\* in flight.
ReadContract(outcome) ==
    /\ publicClient
    /\ \E op \in Ops : op.step = "onboard" /\ op.pc = "sdk"
    /\ last' = [Event("readContract", "onboard", "", None) EXCEPT
                    !.read = Some([prop |-> "readContract", underlying |-> outcome,
                                   wrapped |-> readContract(outcome)])]
    /\ UNCHANGED <<walletVars, stepVars, formVars, onboardVars, inflight, clicks>>

\* The SDK reads another property of the wrapped client.
GetProperty(prop) ==
    /\ publicClient
    /\ \E op \in Ops : op.step = "onboard" /\ op.pc = "sdk"
    /\ last' = [Event("get", "onboard", "", None) EXCEPT
                    !.read = Some([prop |-> prop, underlying |-> Target[prop],
                                   wrapped |-> get(prop)])]
    /\ UNCHANGED <<walletVars, stepVars, formVars, onboardVars, inflight, clicks>>

(***************************************************************************)
(* SpecRead: the single-step App, its SDK call reading through the wrapped *)
(* network client.                                                         *)
(***************************************************************************)
NextRead ==
    \/ handleConnect("metaMask", ReadyWalletClients)
    \/ Click("onboard", 1, MaxWalletClicks)
    \/ \E op \in Ops : Resolve(op, {TRUE})
    \/ \E op \in Ops : SdkCall(op, {SafeA})
    \/ \E outcome \in Outcomes : ReadContract(outcome)
    \/ \E prop \in Props : GetProperty(prop)

SpecRead == Init /\ [][NextRead]_vars

\* C24: through the wrapped client, readContract returns what the
\* underlying call returned; an underlying failure whose message contains
\* "returned no data" becomes an Error named ContractFunctionZeroDataError;
\* any other failure is thrown as it was; any other property is the
\* underlying client's, a method running on the underlying client.
C24_ReadContractWrapped ==
    /\ last.kind = "readContract" =>
          LET u == Get(last.read).underlying
              w == Get(last.read).wrapped
          IN  /\ ~u.threw => w = u
              /\ u.threw /\ u.error.message \in {TextNoData, TextNoDataInside} =>
                    /\ w.threw /\ w.error.isError
                    /\ w.error.name = ZeroDataName
              /\ u.threw /\ u.error.message \notin {TextNoData, TextNoDataInside} => w = u
    /\ last.kind = "get" /\ Get(last.read).prop # "readContract" =>
          LET u == Get(last.read).underlying
              w == Get(last.read).wrapped
          IN  /\ w.type = u.type /\ w.name = u.name
              /\ u.type = "function" => ThisOf(w, "wrapper") = ThisOf(u, "target")
              /\ u.type = "value" => w = u

\* A bare string thrown with the text inside it came out as the named Error.
C24_Witness ==
    /\ last.kind = "readContract"
    /\ Get(last.read).underlying = Threw(JsString(TextNoDataInside))
    /\ Get(last.read).wrapped.error.name = ZeroDataName

\* The invocations of a step that are in flight.
OpsOf(step) == {op \in Ops : op.step = step}

\* C25: two invocations of one step are never in flight together; while an
\* invocation of a step is in flight the step's trigger is disabled and
\* activeStep is set, whatever other invocations completed meanwhile.
C25_SameStepNeverOverlaps ==
    /\ \A op \in Ops : CopiesIn(op, inflight) = 1
    /\ \A step \in Steps : Cardinality(OpsOf(step)) <= 1
    /\ Ops # {} => activeStep # NoStep
    /\ \A op \in Ops : Disabled(op.step)

\* C26: a deploy result is stored exactly when the deploy phase is success.
C26_SafeResultIffDeploySuccess ==
    IsSome(safeResult) <=> deployPhase = "success"

\* C27: each of the four steps whose phase is error has an error message
\* stored, however the operations interleave.
C27_ErrorPhaseHasMessage ==
    \A step \in Steps : Phase(step) = "error" => IsSome(ErrorOf(step))

\* A deploy failed with a value that is no Error while another operation
\* was in flight, and the fallback message is shown.
C27_Witness ==
    /\ last.kind = "failure" /\ last.step = "deploy"
    /\ Ops # {}
    /\ deployPhase = "error"
    /\ deployError = Some(Fallback("deploy"))

\* The steps that act on the deployed Safe through its stored address.
Dependent == {"permissions", "transfer"}

\* C28: whenever the phase of set permissions or of transfer is success, a
\* deploy result is stored and the step's stored result came from an SDK
\* call made for that deploy result's address; so an operation of these
\* steps that was in flight when a new deploy started never marks its step
\* success.
C28_DependentResultsFresh ==
    \A step \in Dependent :
        Phase(step) = "success" =>
            /\ IsSome(safeResult)
            /\ IsSome(ResultOf(step))
            /\ Get(ResultOf(step)).safeAddress = Get(safeResult).safeAddress

\* C29: when the SDK call of set permissions or of transfer is issued, a
\* deploy result is stored and the address passed is that result's address.
C29_CallUsesStoredSafe ==
    last.kind = "sdkCall" /\ last.step \in Dependent =>
        /\ IsSome(safeResult)
        /\ Get(last.op).safeAddress = Get(safeResult).safeAddress

(***************************************************************************)
(* SpecSession: the multi-step App while the wallet session comes and      *)
(* goes: connecting (also with an id no connector has), disconnecting, the *)
(* wallet changing its network or its account, one operation at a time.    *)
(***************************************************************************)
NextSession ==
    \/ \E id \in Connectors \cup {"unknown"} : handleConnect(id, ReadyWalletClients)
    \/ Disconnect
    \/ WalletClientChanged(ReadyWalletClients)
    \/ \E c \in {BaseId, OtherId} : ChainChanged(c, FALSE)
    \/ \E i \in 1..Len(FillOrder) : Fill(i, GoodAddress, <<"1", "0">>)
    \/ \E step \in Steps : Click(step, 1, MaxWalletClicks)
    \/ \E op \in Ops : Resolve(op, {TRUE})
    \/ \E op \in Ops : SwitchChain(op, BOOLEAN)
    \/ \E op \in Ops : SwitchChainAsync(op, BOOLEAN)
    \/ \E op \in Ops : Refetch(op, ReadyWalletClients)
    \/ \E op \in Ops : Reresolve(op)
    \/ \E op \in Ops : SdkCall(op, {SafeA})

SpecSession == Init /\ [][NextSession]_vars

\* The step is an event of the wallet session.
SessionEvent == last'.kind = "wallet"

\* C30: an event of the wallet session (connect, connect with an unknown
\* id, disconnect, chain change, account change) leaves the phases, results,
\* errors and form inputs as they are; a connect with an unknown id leaves
\* everything as it is; a deploy result stored before a disconnect is
\* stored after it and after the next connect, where it enables set
\* permissions and transfer as soon as the App can interact.
C30_SessionEventsKeepSteps ==
    [][SessionEvent =>
          /\ UNCHANGED <<stepVars, formVars, onboardVars, inflight>>
          /\ ~isConnected /\ ~isConnected' => UNCHANGED walletVars
          /\ ~isConnected /\ isConnected' /\ IsSome(safeResult) /\ canInteract'
                /\ activeStep' = NoStep =>
                    /\ safeResult' = safeResult
                    /\ ~PermissionsDisabled'
                    /\ ~TransferDisabled']_vars

\* The session was connected again after a deploy: the wallet client of the
\* new session is still loading, the deploy result is there and the
\* triggers of set permissions and transfer are enabled.
C30_Witness ==
    /\ last.kind = "wallet"
    /\ isConnected /\ walletClient = None
    /\ IsSome(safeResult) /\ deployPhase = "success"
    /\ ~PermissionsDisabled /\ ~TransferDisabled

====
